---- MODULE Spec2Model ----
(***************************************************************************)
(* ip-watcher: the watcher loop (startIPChecker / checkIP) and the         *)
(* fetcher with retries (fetchExternalIP) of main.go.                      *)
(*                                                                         *)
(* Go strings are modelled as sequences of lexemes, so that formatting     *)
(* (fmt.Errorf, log.Printf) is concatenation and the JSON decoder works on *)
(* the tokens of the body.  The empty string is the empty sequence.        *)
(***************************************************************************)
EXTENDS Integers, Sequences, FiniteSets, TLC

VARIABLES
    config,       \* Config: Interval, IPEndpoint, MaxRetries, LastKnownIP
    lockHolder,   \* Config.LastKnownIPLock: the goroutine holding it, or NoOne
    log,          \* the lines written to the logging sink, in order
    ticker,       \* time.Ticker of startIPChecker: running, pending (channel C)
    pc,           \* position of each goroutine
    endpoint,     \* fetchExternalIP parameter, innermost frame
    attempt,      \* fetchExternalIP parameter, innermost frame (0: no frame)
    maxAttempts,  \* fetchExternalIP parameter, innermost frame
    depth,        \* number of fetchExternalIP frames on the stack
    ip,           \* value returned by fetchExternalIP to checkIP
    err,          \* error returned by fetchExternalIP to checkIP
    resp,         \* response of client.Get whose body is not read yet
    hist,         \* history: outcomes of the network calls of the fetch under way
    logAtStart,   \* history: the log when the goroutine's current check began
    cacheAtStart, \* history: LastKnownIP when the current check began
    results,      \* history: what each fetch returned to checkIP, in order
    started,      \* history: number of checks begun
    ticks         \* history: number of ticker firings, delivered or dropped

vars == <<config, lockHolder, log, ticker, pc, endpoint, attempt, maxAttempts,
          depth, ip, err, resp, hist, logAtStart, cacheAtStart, results,
          started, ticks>>

(***************************************************************************)
(* Bounds                                                                  *)
(***************************************************************************)
MaxBudget == 3      \* largest configured MaxRetries
MaxChecks == 3      \* checks begun in one run
MaxTicks == 3       \* ticker firings in one run

(***************************************************************************)
(* Strings                                                                 *)
(***************************************************************************)
Digit(d) ==
    CASE d = 0 -> "0" [] d = 1 -> "1" [] d = 2 -> "2" [] d = 3 -> "3"
      [] d = 4 -> "4" [] d = 5 -> "5" [] d = 6 -> "6" [] d = 7 -> "7"
      [] d = 8 -> "8" [] d = 9 -> "9"

RECURSIVE ItoaNat(_)
ItoaNat(n) ==
    IF n < 10 THEN <<Digit(n)>> ELSE ItoaNat(n \div 10) \o <<Digit(n % 10)>>

\* the %d verb
Itoa(n) == IF n < 0 THEN <<"-">> \o ItoaNat(0 - n) ELSE ItoaNat(n)

EmptyString == <<>>

\* t occurs in s as a contiguous run
Contains(s, t) ==
    \E i \in 1..(Len(s) - Len(t) + 1) : SubSeq(s, i, i + Len(t) - 1) = t

(***************************************************************************)
(* Errors                                                                  *)
(***************************************************************************)
Nil == [isNil |-> TRUE, msg |-> <<>>]
Errorf(m) == [isNil |-> FALSE, msg |-> m]

(***************************************************************************)
(* Response parsing: json.Unmarshal into IPifyResponse, then the fallback  *)
(***************************************************************************)
StrLits == {"\"ip\"", "\"IP\"", "\"A\"", "\"B\"", "\"\"", "\"k\""}

\* the content of a JSON string literal
Unquote(t) ==
    CASE t = "\"ip\"" -> <<"ip">>
      [] t = "\"IP\"" -> <<"IP">>
      [] t = "\"A\""  -> <<"A">>
      [] t = "\"B\""  -> <<"B">>
      [] t = "\"k\""  -> <<"k">>
      [] t = "\"\""   -> EmptyString

\* encoding/json matches object keys to struct fields ignoring case
FoldLexeme(c) == IF c = "IP" THEN "ip" ELSE c
EqualFold(a, b) ==
    /\ Len(a) = Len(b)
    /\ \A i \in 1..Len(a) : FoldLexeme(a[i]) = FoldLexeme(b[i])

IsWS(t) == t \in {" ", "\n"}
JSONScalar(t) == t \in StrLits \cup {"1", "null", "true"}

\* the lexemes of the body that are not insignificant whitespace
Significant(s) == SelectSeq(s, LAMBDA t : ~IsWS(t))

ValidObject(s) ==
    /\ Len(s) >= 2
    /\ s[1] = "{"
    /\ s[Len(s)] = "}"
    /\ LET m == SubSeq(s, 2, Len(s) - 1)
       IN  \/ m = <<>>
           \/ /\ Len(m) % 4 = 3
              /\ \A i \in 1..Len(m) :
                    CASE i % 4 = 1 -> m[i] \in StrLits
                      [] i % 4 = 2 -> m[i] = ":"
                      [] i % 4 = 3 -> JSONScalar(m[i])
                      [] OTHER     -> m[i] = ","

\* json.checkValid: the whole input is one JSON value
checkValid(s) == (Len(s) = 1 /\ JSONScalar(s[1])) \/ ValidObject(s)

\* decoding the members of an object into the struct, in input order;
\* a value of the wrong type is recorded and decoding goes on
RECURSIVE decodeMembers(_, _)
decodeMembers(m, acc) ==
    IF m = <<>> THEN acc
    ELSE LET key  == Unquote(m[1])
             val  == m[3]
             rest == IF Len(m) > 3 THEN SubSeq(m, 5, Len(m)) ELSE <<>>
             acc2 == IF ~EqualFold(key, <<"ip">>) THEN acc
                     ELSE IF val \in StrLits
                          THEN [acc EXCEPT !.IP = Unquote(val)]
                     ELSE IF val = "null" THEN acc
                     ELSE [acc EXCEPT !.err = TRUE]
         IN  decodeMembers(rest, acc2)

\* json.Unmarshal(body, &ipResponse) on a zero IPifyResponse
Unmarshal(body) ==
    LET s == Significant(body)
        zero == [err |-> FALSE, IP |-> EmptyString]
    IN  IF ~checkValid(s) THEN [zero EXCEPT !.err = TRUE]
        ELSE IF Len(s) = 1
             THEN (IF s[1] = "null" THEN zero ELSE [zero EXCEPT !.err = TRUE])
        ELSE decodeMembers(SubSeq(s, 2, Len(s) - 1), zero)

\* variant: the test for an empty ip field is missing
parseBody_noEmptyCheck(body) ==
    LET ipResponse == Unmarshal(body)
    IN  IF ~ipResponse.err THEN ipResponse.IP ELSE body

\* main.go:170-177: the ip field if decoding succeeded and it is non-empty,
\* otherwise string(body)
parseBody(body) ==
    LET ipResponse == Unmarshal(body)
    IN  IF ~ipResponse.err /\ ipResponse.IP # EmptyString
        THEN ipResponse.IP
        ELSE body

(***************************************************************************)
(* The network: what one client.Get and the following io.ReadAll can do    *)
(***************************************************************************)
TransportErrs == {<<"connection refused">>}
ReadErrs == {<<"unexpected EOF">>}
Statuses == {200, 299, 300, 500}
Bodies == { <<"{", "\"ip\"", ":", "\"A\"", "}">>,
            <<"B">>,
            EmptyString }

Is2xx(code) == ~(code < 200 \/ code >= 300)

Outcome(e, code, body, re) ==
    [err |-> e, StatusCode |-> code, Body |-> body, readErr |-> re]

\* the *http.Response held between client.Get and io.ReadAll
NoResponse == [open |-> FALSE, StatusCode |-> 0]
Response(code) == [open |-> TRUE, StatusCode |-> code]

Outcomes ==
    {Outcome(Errorf(e), 0, EmptyString, Nil) : e \in TransportErrs}
    \cup {Outcome(Nil, c, EmptyString, Nil) : c \in {s \in Statuses : ~Is2xx(s)}}
    \cup {Outcome(Nil, c, b, Nil) : c \in {s \in Statuses : Is2xx(s)}, b \in Bodies}
    \cup {Outcome(Nil, 200, EmptyString, Errorf(e)) : e \in ReadErrs}

(***************************************************************************)
(* fetchExternalIP                                                         *)
(***************************************************************************)
Retry == [retry |-> TRUE, ip |-> EmptyString, err |-> Nil]
Return(i, e) == [retry |-> FALSE, ip |-> i, err |-> e]

\* main.go:139-142
ErrNoAttempts(max) ==
    Errorf(<<"failed to make request after ">> \o Itoa(max) \o <<" attempts">>)

\* variant: the retry tests compare attempt+1 with maxAttempts
fetchFrame_offByOne(att, max, o) ==
    IF ~o.err.isNil
    THEN IF att + 1 < max THEN Retry
         ELSE Return(EmptyString,
                     Errorf(<<"failed to make request after ">> \o Itoa(max)
                            \o <<" attempts", ": ">> \o o.err.msg))
    ELSE IF o.StatusCode < 200 \/ o.StatusCode >= 300
    THEN IF att + 1 < max THEN Retry
         ELSE Return(EmptyString,
                     Errorf(<<"failed after ">> \o Itoa(max)
                            \o <<" attempts", ": HTTP status ">>
                            \o Itoa(o.StatusCode)))
    ELSE IF ~o.readErr.isNil
    THEN Return(EmptyString,
                Errorf(<<"failed to read response: ">> \o o.readErr.msg))
    ELSE Return(parseBody(o.Body), Nil)

\* variant: the status branch formats the (nil) transport error as the cause
fetchFrame_nilCause(att, max, o) ==
    IF ~o.err.isNil
    THEN IF att < max THEN Retry
         ELSE Return(EmptyString,
                     Errorf(<<"failed to make request after ">> \o Itoa(max)
                            \o <<" attempts", ": ">> \o o.err.msg))
    ELSE IF o.StatusCode < 200 \/ o.StatusCode >= 300
    THEN IF att < max THEN Retry
         ELSE Return(EmptyString,
                     Errorf(<<"failed to make request after ">> \o Itoa(max)
                            \o <<" attempts", ": ">> \o <<"<nil>">>))
    ELSE IF ~o.readErr.isNil
    THEN Return(EmptyString,
                Errorf(<<"failed to read response: ">> \o o.readErr.msg))
    ELSE Return(parseBody(o.Body), Nil)

\* variant: the retry tests let the last attempt retry as well
fetchFrame_retriesAtMax(att, max, o) ==
    IF ~o.err.isNil
    THEN IF att <= max THEN Retry
         ELSE Return(EmptyString,
                     Errorf(<<"failed to make request after ">> \o Itoa(max)
                            \o <<" attempts", ": ">> \o o.err.msg))
    ELSE IF o.StatusCode < 200 \/ o.StatusCode >= 300
    THEN IF att <= max THEN Retry
         ELSE Return(EmptyString,
                     Errorf(<<"failed after ">> \o Itoa(max)
                            \o <<" attempts", ": HTTP status ">>
                            \o Itoa(o.StatusCode)))
    ELSE IF ~o.readErr.isNil
    THEN Return(EmptyString,
                Errorf(<<"failed to read response: ">> \o o.readErr.msg))
    ELSE Return(parseBody(o.Body), Nil)

\* main.go:145-177: what one frame does with the outcome of its request
fetchFrame(att, max, o) ==
    IF ~o.err.isNil
    THEN IF att < max THEN Retry
         ELSE Return(EmptyString,
                     Errorf(<<"failed to make request after ">> \o Itoa(max)
                            \o <<" attempts", ": ">> \o o.err.msg))
    ELSE IF o.StatusCode < 200 \/ o.StatusCode >= 300
    THEN IF att < max THEN Retry
         ELSE Return(EmptyString,
                     Errorf(<<"failed after ">> \o Itoa(max)
                            \o <<" attempts", ": HTTP status ">>
                            \o Itoa(o.StatusCode)))
    ELSE IF ~o.readErr.isNil
    THEN Return(EmptyString,
                Errorf(<<"failed to read response: ">> \o o.readErr.msg))
    ELSE Return(parseBody(o.Body), Nil)

(***************************************************************************)
(* Logging                                                                 *)
(***************************************************************************)
StartLine(interval) ==
    <<"IP Watcher starting. Will check IP every ">> \o Itoa(interval)
        \o <<" seconds">>
ErrorLine(e) == <<"Error checking IP: ">> \o e.msg
CurrentLine(addr) == <<"Current external IP: ">> \o addr

\* variant: the arguments of the format are swapped
ChangedLine_swapped(old, new) ==
    <<"IP changed: ">> \o new \o <<" -> ">> \o old
ChangedLine(old, new) == <<"IP changed: ">> \o old \o <<" -> ">> \o new

\* logMessage
logMessage(line) == log' = Append(log, line)

(***************************************************************************)
(* Goroutines and configuration                                            *)
(***************************************************************************)
Watcher == "watcher"      \* the goroutine running startIPChecker
Caller == "caller"        \* a goroutine calling checkIP on the same Config
Reader == "reader"        \* a goroutine reading LastKnownIP under the lock
Procs == {Watcher, Caller, Reader}
NoOne == "none"

Intervals == {0, 60}
Endpoints == {<<"https://api64.ipify.org?format=json">>}
Budgets == (0 - 1)..MaxBudget

\* parseFlags: the Config handed to startIPChecker
Configs ==
    [Interval : Intervals, IPEndpoint : Endpoints, MaxRetries : Budgets,
     LastKnownIP : {EmptyString}]

\* main: the state in which startIPChecker is called
Init ==
    /\ config \in Configs
    /\ lockHolder = NoOne
    /\ log = <<StartLine(config.Interval)>>
    /\ ticker = [running |-> FALSE, pending |-> 0]
    /\ pc = [p \in Procs |-> IF p = Watcher THEN "startIPChecker" ELSE "off"]
    /\ endpoint = [p \in Procs |-> EmptyString]
    /\ attempt = [p \in Procs |-> 0]
    /\ maxAttempts = [p \in Procs |-> 0]
    /\ depth = [p \in Procs |-> 0]
    /\ ip = [p \in Procs |-> EmptyString]
    /\ err = [p \in Procs |-> Nil]
    /\ resp = [p \in Procs |-> NoResponse]
    /\ hist = [p \in Procs |-> <<>>]
    /\ logAtStart = [p \in Procs |-> log]
    /\ cacheAtStart = [p \in Procs |-> EmptyString]
    /\ results = <<>>
    /\ started = 0
    /\ ticks = 0

(***************************************************************************)
(* startIPChecker                                                          *)
(***************************************************************************)
\* variant: the initial check is missing, the loop starts with the ticker
NewTicker_skipsInitial(p) ==
    /\ pc[p] = "startIPChecker"
    /\ IF config.Interval <= 0
       THEN /\ pc' = [pc EXCEPT ![p] = "panic"]
            /\ UNCHANGED ticker
       ELSE /\ pc' = [pc EXCEPT ![p] = "idle"]
            /\ ticker' = [running |-> TRUE, pending |-> 0]
    /\ UNCHANGED <<config, lockHolder, log, endpoint, attempt, maxAttempts,
                   depth, ip, err, hist, logAtStart, cacheAtStart, results,
                   started, ticks, resp>>

\* main.go:91: time.NewTicker panics on a non-positive duration
NewTicker(p) ==
    /\ pc[p] = "startIPChecker"
    /\ IF config.Interval <= 0
       THEN /\ pc' = [pc EXCEPT ![p] = "panic"]
            /\ UNCHANGED ticker
       ELSE /\ pc' = [pc EXCEPT ![p] = "initial"]
            /\ ticker' = [running |-> TRUE, pending |-> 0]
    /\ UNCHANGED <<config, lockHolder, log, endpoint, attempt, maxAttempts,
                   depth, ip, err, hist, logAtStart, cacheAtStart, results,
                   started, ticks, resp>>

\* variant: the channel queues every tick
Tick_queues ==
    /\ ticker.running
    /\ ticks < MaxTicks
    /\ ticks' = ticks + 1
    /\ ticker' = [ticker EXCEPT !.pending = @ + 1]
    /\ UNCHANGED <<config, lockHolder, log, pc, endpoint, attempt, maxAttempts,
                   depth, ip, err, hist, logAtStart, cacheAtStart, results,
                   started, resp>>

\* the runtime timer fires: the tick is put in the channel (capacity 1) or,
\* when the previous tick has not been received yet, dropped
Tick ==
    /\ ticker.running
    /\ ticks < MaxTicks
    /\ ticks' = ticks + 1
    /\ ticker' = [ticker EXCEPT !.pending = 1]
    /\ UNCHANGED <<config, lockHolder, log, pc, endpoint, attempt, maxAttempts,
                   depth, ip, err, hist, logAtStart, cacheAtStart, results,
                   started, resp>>

\* main.go:104-106: checkIP calls fetchExternalIP(config.IPEndpoint, 1,
\* config.MaxRetries)
callFetch(p) ==
    /\ started < MaxChecks
    /\ started' = started + 1
    /\ endpoint' = [endpoint EXCEPT ![p] = config.IPEndpoint]
    /\ attempt' = [attempt EXCEPT ![p] = 1]
    /\ maxAttempts' = [maxAttempts EXCEPT ![p] = config.MaxRetries]
    /\ depth' = [depth EXCEPT ![p] = 1]
    /\ ip' = [ip EXCEPT ![p] = EmptyString]
    /\ err' = [err EXCEPT ![p] = Nil]
    /\ hist' = [hist EXCEPT ![p] = <<>>]
    /\ logAtStart' = [logAtStart EXCEPT ![p] = log]
    /\ cacheAtStart' = [cacheAtStart EXCEPT ![p] = config.LastKnownIP]
    /\ pc' = [pc EXCEPT ![p] = "fetch"]

\* main.go:95: the initial check
InitialCheck(p) ==
    /\ pc[p] = "initial"
    /\ callFetch(p)
    /\ UNCHANGED <<config, lockHolder, log, ticker, results, ticks, resp>>

\* variant: each tick begins a check of its own, whatever the loop is doing
TickerRecv_concurrent(p) ==
    /\ pc[p] \notin {"startIPChecker", "initial", "panic"}
    /\ ticker.pending = 1
    /\ ticker' = [ticker EXCEPT !.pending = 0]
    /\ callFetch(p)
    /\ UNCHANGED <<config, lockHolder, log, results, ticks, resp>>

\* main.go:98-99: a tick is received from ticker.C and a check begins
TickerRecv(p) ==
    /\ pc[p] = "idle"
    /\ ticker.pending = 1
    /\ ticker' = [ticker EXCEPT !.pending = 0]
    /\ callFetch(p)
    /\ UNCHANGED <<config, lockHolder, log, results, ticks, resp>>

(***************************************************************************)
(* fetchExternalIP, one frame at a time                                    *)
(***************************************************************************)
\* variant: the test of the attempt counter against the budget is missing
FetchEntry_noGuard(p) ==
    /\ pc[p] = "fetch"
    /\ pc' = [pc EXCEPT ![p] = "get"]
    /\ UNCHANGED <<config, lockHolder, log, ticker, endpoint, attempt,
                   maxAttempts, depth, ip, err, hist, logAtStart,
                   cacheAtStart, results, started, ticks, resp>>

\* main.go:133-145: entry of a frame, up to the moment the request is sent
FetchEntry(p) ==
    /\ pc[p] = "fetch"
    /\ IF attempt[p] > maxAttempts[p]
       THEN /\ ip' = [ip EXCEPT ![p] = EmptyString]
            /\ err' = [err EXCEPT ![p] = ErrNoAttempts(maxAttempts[p])]
            /\ pc' = [pc EXCEPT ![p] = "returned"]
       ELSE /\ pc' = [pc EXCEPT ![p] = "get"]
            /\ UNCHANGED <<ip, err>>
    /\ UNCHANGED <<config, lockHolder, log, ticker, endpoint, attempt,
                   maxAttempts, depth, hist, logAtStart, cacheAtStart,
                   results, started, ticks, resp>>

\* main.go:147-177: a frame that has the outcome o of its attempt either
\* calls itself with attempt+1 or returns, and a return is handed down
\* unchanged through the enclosing frames to checkIP
settle(p, o) ==
    LET r == fetchFrame(attempt[p], maxAttempts[p], o)
    IN  /\ hist' = [hist EXCEPT ![p] = Append(@, o)]
        /\ IF r.retry
           THEN /\ attempt' = [attempt EXCEPT ![p] = @ + 1]
                /\ depth' = [depth EXCEPT ![p] = @ + 1]
                /\ pc' = [pc EXCEPT ![p] = "fetch"]
                /\ UNCHANGED <<ip, err>>
           ELSE /\ ip' = [ip EXCEPT ![p] = r.ip]
                /\ err' = [err EXCEPT ![p] = r.err]
                /\ pc' = [pc EXCEPT ![p] = "returned"]
                /\ UNCHANGED <<attempt, depth>>

\* main.go:145-162: client.Get returns; a transport error or a non-2xx
\* status settles the attempt, a 2xx response is kept for its body to be read
request(p, served) ==
    /\ pc[p] = "get"
    /\ \E o \in served :
          IF o.err.isNil /\ Is2xx(o.StatusCode)
          THEN /\ resp' = [resp EXCEPT ![p] = Response(o.StatusCode)]
               /\ pc' = [pc EXCEPT ![p] = "read"]
               /\ UNCHANGED <<attempt, depth, ip, err, hist>>
          ELSE /\ settle(p, o)
               /\ UNCHANGED resp
    /\ UNCHANGED <<config, lockHolder, log, ticker, endpoint, maxAttempts,
                   logAtStart, cacheAtStart, results, started, ticks>>

\* main.go:165-177: io.ReadAll returns the body of the 2xx response, or
\* fails, and the frame returns
readBody(p, served) ==
    /\ pc[p] = "read"
    /\ \E o \in served :
          /\ o.err.isNil
          /\ o.StatusCode = resp[p].StatusCode
          /\ settle(p, o)
    /\ resp' = [resp EXCEPT ![p] = NoResponse]
    /\ UNCHANGED <<config, lockHolder, log, ticker, endpoint, maxAttempts,
                   logAtStart, cacheAtStart, results, started, ticks>>

\* the request against an endpoint that can answer with any of Outcomes
Get(p) == request(p, Outcomes)
ReadAll(p) == readBody(p, Outcomes)

(***************************************************************************)
(* checkIP                                                                 *)
(***************************************************************************)
\* where the goroutine goes when checkIP returns
afterCheck(p) == IF p = Watcher THEN "idle" ELSE "ready"

\* the frames of the fetch are gone once checkIP has its result
popFrames(p) ==
    /\ endpoint' = [endpoint EXCEPT ![p] = EmptyString]
    /\ attempt' = [attempt EXCEPT ![p] = 0]
    /\ maxAttempts' = [maxAttempts EXCEPT ![p] = 0]
    /\ depth' = [depth EXCEPT ![p] = 0]
    /\ hist' = [hist EXCEPT ![p] = <<>>]

\* variant: the return after logging the error is missing
FetchReturned_fallsThrough(p) ==
    /\ pc[p] = "returned"
    /\ results' = Append(results, [ip |-> ip[p], err |-> err[p]])
    /\ IF ~err[p].isNil
       THEN /\ logMessage(ErrorLine(err[p]))
            /\ pc' = [pc EXCEPT ![p] = "lock"]
       ELSE /\ pc' = [pc EXCEPT ![p] = "lock"]
            /\ UNCHANGED log
    /\ popFrames(p)
    /\ UNCHANGED <<config, lockHolder, ticker, ip, err, logAtStart,
                   cacheAtStart, started, ticks, resp>>

\* variant: the error is logged with log.Fatalf, which exits the process
FetchReturned_fatal(p) ==
    /\ pc[p] = "returned"
    /\ results' = Append(results, [ip |-> ip[p], err |-> err[p]])
    /\ IF ~err[p].isNil
       THEN /\ logMessage(ErrorLine(err[p]))
            /\ pc' = [pc EXCEPT ![p] = "exit"]
       ELSE /\ pc' = [pc EXCEPT ![p] = "lock"]
            /\ UNCHANGED log
    /\ popFrames(p)
    /\ UNCHANGED <<config, lockHolder, ticker, ip, err, logAtStart,
                   cacheAtStart, started, ticks, resp>>

\* main.go:106-110: the fetch has returned; on an error log it and return
FetchReturned(p) ==
    /\ pc[p] = "returned"
    /\ results' = Append(results, [ip |-> ip[p], err |-> err[p]])
    /\ IF ~err[p].isNil
       THEN /\ logMessage(ErrorLine(err[p]))
            /\ pc' = [pc EXCEPT ![p] = afterCheck(p)]
       ELSE /\ pc' = [pc EXCEPT ![p] = "lock"]
            /\ UNCHANGED log
    /\ popFrames(p)
    /\ UNCHANGED <<config, lockHolder, ticker, ip, err, logAtStart,
                   cacheAtStart, started, ticks, resp>>

\* variant: the lock is taken without waiting for its holder
Lock_noWait(p) ==
    /\ pc[p] = "lock"
    /\ lockHolder' = p
    /\ pc' = [pc EXCEPT ![p] = "compare"]
    /\ UNCHANGED <<config, log, ticker, endpoint, attempt, maxAttempts, depth,
                   ip, err, hist, logAtStart, cacheAtStart, results, started,
                   ticks, resp>>

\* main.go:113
Lock(p) ==
    /\ pc[p] = "lock"
    /\ lockHolder = NoOne
    /\ lockHolder' = p
    /\ pc' = [pc EXCEPT ![p] = "compare"]
    /\ UNCHANGED <<config, log, ticker, endpoint, attempt, maxAttempts, depth,
                   ip, err, hist, logAtStart, cacheAtStart, results, started,
                   ticks, resp>>

\* variant: the cache is set before the line is written
Compare_assignsFirst(p) ==
    /\ pc[p] = "compare"
    /\ IF ip[p] # config.LastKnownIP
       THEN /\ config' = [config EXCEPT !.LastKnownIP = ip[p]]
            /\ IF config.LastKnownIP = EmptyString
               THEN logMessage(CurrentLine(ip[p]))
               ELSE logMessage(ChangedLine(config.LastKnownIP, ip[p]))
            /\ pc' = [pc EXCEPT ![p] = "assign"]
       ELSE /\ pc' = [pc EXCEPT ![p] = "unlock"]
            /\ UNCHANGED <<config, log>>
    /\ UNCHANGED <<lockHolder, ticker, endpoint, attempt, maxAttempts,
                   depth, ip, err, hist, logAtStart, cacheAtStart, results,
                   started, ticks, resp>>

\* main.go:116-121: compare with the cache and log
Compare(p) ==
    /\ pc[p] = "compare"
    /\ IF ip[p] # config.LastKnownIP
       THEN /\ IF config.LastKnownIP = EmptyString
               THEN logMessage(CurrentLine(ip[p]))
               ELSE logMessage(ChangedLine(config.LastKnownIP, ip[p]))
            /\ pc' = [pc EXCEPT ![p] = "assign"]
       ELSE /\ pc' = [pc EXCEPT ![p] = "unlock"]
            /\ UNCHANGED log
    /\ UNCHANGED <<config, lockHolder, ticker, endpoint, attempt, maxAttempts,
                   depth, ip, err, hist, logAtStart, cacheAtStart, results,
                   started, ticks, resp>>

\* variant: the assignment sits in the first-observation branch only
Assign_onlyFirst(p) ==
    /\ pc[p] = "assign"
    /\ config' = IF config.LastKnownIP = EmptyString
                 THEN [config EXCEPT !.LastKnownIP = ip[p]]
                 ELSE config
    /\ pc' = [pc EXCEPT ![p] = "unlock"]
    /\ UNCHANGED <<lockHolder, log, ticker, endpoint, attempt, maxAttempts,
                   depth, ip, err, hist, logAtStart, cacheAtStart, results,
                   started, ticks, resp>>

\* main.go:122
Assign(p) ==
    /\ pc[p] = "assign"
    /\ config' = [config EXCEPT !.LastKnownIP = ip[p]]
    /\ pc' = [pc EXCEPT ![p] = "unlock"]
    /\ UNCHANGED <<lockHolder, log, ticker, endpoint, attempt, maxAttempts,
                   depth, ip, err, hist, logAtStart, cacheAtStart, results,
                   started, ticks, resp>>

\* variant: the deferred Unlock is missing
Unlock_keepsLock(p) ==
    /\ pc[p] = "unlock"
    /\ pc' = [pc EXCEPT ![p] = afterCheck(p)]
    /\ UNCHANGED <<config, lockHolder, log, ticker, endpoint, attempt,
                   maxAttempts, depth, ip, err, hist, logAtStart,
                   cacheAtStart, results, started, ticks, resp>>

\* main.go:114, 124: the deferred Unlock, then checkIP returns
Unlock(p) ==
    /\ pc[p] = "unlock"
    /\ lockHolder' = NoOne
    /\ pc' = [pc EXCEPT ![p] = afterCheck(p)]
    /\ UNCHANGED <<config, log, ticker, endpoint, attempt, maxAttempts, depth,
                   ip, err, hist, logAtStart, cacheAtStart, results, started,
                   ticks, resp>>

(***************************************************************************)
(* Specification                                                           *)
(***************************************************************************)
Next ==
    \/ NewTicker(Watcher)
    \/ Tick
    \/ InitialCheck(Watcher)
    \/ TickerRecv(Watcher)
    \/ FetchEntry(Watcher)
    \/ Get(Watcher)
    \/ ReadAll(Watcher)
    \/ FetchReturned(Watcher)
    \/ Lock(Watcher)
    \/ Compare(Watcher)
    \/ Assign(Watcher)
    \/ Unlock(Watcher)

Spec == Init /\ [][Next]_vars

TypeOK ==
    /\ [config EXCEPT !.LastKnownIP = EmptyString] \in Configs
    /\ ticker.pending \in {0, 1}
    /\ \A p \in Procs : attempt[p] \in 0..MaxBudget /\ depth[p] = attempt[p]
    /\ \A p \in Procs : resp[p].open <=> pc[p] = "read"
    /\ Len(results) <= started
    /\ lockHolder \in Procs \cup {NoOne}
    /\ started \in 0..MaxChecks
    /\ ticks \in 0..MaxTicks

(***************************************************************************)
(* Vocabulary of the properties                                            *)
(***************************************************************************)
\* the fetch of p's current check has just returned to checkIP
Returned(p) == pc[p] = "returned"

\* p's current check has run to its end
CheckDone(p) == pc[p] = "idle"

\* an attempt failed in transport or with a non-2xx status
Failed(o) == ~o.err.isNil \/ o.StatusCode < 200 \/ o.StatusCode > 299

\* an attempt answered 2xx and delivered its body
Answered(o) ==
    o.err.isNil /\ o.StatusCode >= 200 /\ o.StatusCode <= 299 /\ o.readErr.isNil

\* an attempt answered 2xx, whether or not its body could be read
Is2xxResponse(o) == o.err.isNil /\ o.StatusCode >= 200 /\ o.StatusCode <= 299

AllFailed(h) == \A i \in 1..Len(h) : Failed(h[i])

Last(s) == s[Len(s)]

\* the address each body of the model stands for
AddressServed(b) ==
    CASE b = <<"{", "\"ip\"", ":", "\"A\"", "}">> -> <<"A">>
      [] b = <<"B">> -> <<"B">>
      [] b = <<>> -> <<>>

\* the cause of a failed attempt as the final error prints it
Cause(o) == IF ~o.err.isNil THEN o.err.msg ELSE Itoa(o.StatusCode)

(***************************************************************************)
(* C1  Attempt bounding: with maxAttempts = N >= 1, a fetch all of whose   *)
(* attempts failed (transport error or non-2xx, in any mix) has made       *)
(* exactly N network calls when it returns, and returns an error whose     *)
(* text mentions "N attempts".                                             *)
(***************************************************************************)
C1_AttemptBounding ==
    \A p \in Procs :
        (Returned(p) /\ maxAttempts[p] >= 1 /\ AllFailed(hist[p]))
            => /\ Len(hist[p]) = maxAttempts[p]
               /\ ~err[p].isNil
               /\ Contains(err[p].msg, Itoa(maxAttempts[p]) \o <<" attempts">>)

C1_Witness ==
    /\ Returned(Watcher)
    /\ maxAttempts[Watcher] = 3
    /\ Len(hist[Watcher]) = 3
    /\ AllFailed(hist[Watcher])
    /\ ~hist[Watcher][1].err.isNil
    /\ hist[Watcher][2].err.isNil
    /\ ~err[Watcher].isNil

(***************************************************************************)
(* C2  Retry recovery: with N >= 1, when the first k < N calls fail and    *)
(* call k+1 answers 2xx, the fetch returns the address of that response    *)
(* with no error, and that call is the last one: no call follows the       *)
(* first 2xx answer, and the fetch does not return an all-failed result    *)
(* before N calls were made.                                               *)
(***************************************************************************)
C2_RetryRecovery ==
    \A p \in Procs :
        /\ \A i \in 1..Len(hist[p]) :
              Is2xxResponse(hist[p][i])
                  => /\ i = Len(hist[p])
                     /\ i <= maxAttempts[p]
                     /\ Returned(p)
                     /\ err[p].isNil
                     /\ ip[p] = AddressServed(hist[p][i].Body)
        /\ (Returned(p) /\ maxAttempts[p] >= 1 /\ AllFailed(hist[p]))
              => Len(hist[p]) >= maxAttempts[p]

(***************************************************************************)
(* C3  Giving up only after the full budget: whenever a fetch with         *)
(* maxAttempts >= 1 returns an error to checkIP, exactly maxAttempts       *)
(* network calls were made, whatever failed during the attempts.           *)
(***************************************************************************)
C3_ErrorOnlyAfterFullBudget ==
    \A p \in Procs :
        (Returned(p) /\ maxAttempts[p] >= 1 /\ ~err[p].isNil)
            => Len(hist[p]) = maxAttempts[p]

(***************************************************************************)
(* C4  Cache never regresses: once LastKnownIP is non-empty, a check       *)
(* changes it if and only if its fetch succeeded with a non-empty string   *)
(* different from the cached one, and the cache never goes back to empty.  *)
(***************************************************************************)
C4_CacheNeverRegresses ==
    \A p \in Procs :
        (CheckDone(p) /\ cacheAtStart[p] # EmptyString)
            => /\ (config.LastKnownIP # cacheAtStart[p])
                    <=> (err[p].isNil /\ ip[p] # EmptyString
                         /\ ip[p] # cacheAtStart[p])
               /\ config.LastKnownIP # EmptyString

(***************************************************************************)
(* C5  A failed fetch leaves the cache untouched: a check whose fetch      *)
(* returned an error never reaches the compare step, emits exactly the     *)
(* one line "Error checking IP: <cause>" and leaves LastKnownIP as it was  *)
(* before the check.                                                       *)
(***************************************************************************)
C5_FailedFetchFrame ==
    \A p \in Procs :
        ~err[p].isNil
            => /\ pc[p] \in {"returned", "idle"}
               /\ config.LastKnownIP = cacheAtStart[p]
               /\ pc[p] = "returned" => log = logAtStart[p]
               /\ pc[p] = "idle"
                     => log = logAtStart[p]
                               \o << <<"Error checking IP: ">> \o err[p].msg >>

C5_Witness ==
    /\ CheckDone(Watcher)
    /\ ~err[Watcher].isNil
    /\ cacheAtStart[Watcher] = <<"A">>
    /\ config.LastKnownIP = <<"A">>
    /\ Len(log) = Len(logAtStart[Watcher]) + 1

(***************************************************************************)
(* C6  Change detection: from an empty cache, three checks whose fetches   *)
(* succeed with A, A, B (A, B distinct and non-empty) log exactly          *)
(* "Current external IP: A", nothing, "IP changed: A -> B"; the cache is   *)
(* A after the first and the second check and B after the third.           *)
(***************************************************************************)
Succeeded(r) == r.err.isNil

C6_ChangeDetection ==
    (CheckDone(Watcher) /\ Len(results) >= 1 /\ Len(results) <= 3
        /\ \A i \in 1..Len(results) : Succeeded(results[i]))
    => LET A == results[1].ip
       IN  A # <<>> =>
           /\ Len(results) = 1
                 => /\ Tail(log) = << <<"Current external IP: ">> \o A >>
                    /\ config.LastKnownIP = A
           /\ (Len(results) = 2 /\ results[2].ip = A)
                 => /\ Tail(log) = << <<"Current external IP: ">> \o A >>
                    /\ config.LastKnownIP = A
           /\ (Len(results) = 3 /\ results[2].ip = A
                 /\ results[3].ip # A /\ results[3].ip # <<>>)
                 => LET B == results[3].ip
                    IN  /\ Tail(log) =
                              << <<"Current external IP: ">> \o A,
                                 <<"IP changed: ">> \o A \o <<" -> ">> \o B >>
                        /\ config.LastKnownIP = B

C6_Witness ==
    /\ CheckDone(Watcher)
    /\ Len(results) = 3
    /\ results[1] = [ip |-> <<"A">>, err |-> Nil]
    /\ results[2] = [ip |-> <<"A">>, err |-> Nil]
    /\ results[3] = [ip |-> <<"B">>, err |-> Nil]
    /\ Len(log) = 3
    /\ config.LastKnownIP = <<"B">>

(***************************************************************************)
(* C7  Idempotence of an unchanged address: a check whose fetch succeeds   *)
(* with the cached address logs nothing and leaves the cache alone; hence  *)
(* two consecutive successful fetches of the same address from an empty    *)
(* cache produce exactly one line in total, the first-observation line,    *)
(* and further repetitions add none.                                       *)
(***************************************************************************)
C7_UnchangedIsIdempotent ==
    /\ \A p \in Procs :
          (CheckDone(p) /\ err[p].isNil /\ ip[p] = cacheAtStart[p])
              => /\ log = logAtStart[p]
                 /\ config.LastKnownIP = cacheAtStart[p]
    /\ (CheckDone(Watcher) /\ Len(results) >= 2
          /\ \A i \in 1..Len(results) :
                Succeeded(results[i]) /\ results[i].ip = results[1].ip)
       => Tail(log) = << <<"Current external IP: ">> \o results[1].ip >>

(***************************************************************************)
(* C8  First observation: a check whose fetch succeeds while the cache is  *)
(* empty logs exactly the one line "Current external IP: <address>" and    *)
(* sets the cache to that address, for every address the fetcher returns.  *)
(***************************************************************************)
C8_FirstObservation ==
    \A p \in Procs :
        (CheckDone(p) /\ err[p].isNil /\ cacheAtStart[p] = EmptyString)
            => /\ log = logAtStart[p]
                          \o << <<"Current external IP: ">> \o ip[p] >>
               /\ config.LastKnownIP = ip[p]

(***************************************************************************)
(* C9  The final error reports the last cause: when the fetch gives up     *)
(* after maxAttempts >= 1 failed attempts, the error text carries          *)
(* "<maxAttempts> attempts" and ends with the cause of the last attempt    *)
(* (its transport error, or its HTTP status code), and carries the cause   *)
(* of no earlier attempt that failed differently.                          *)
(***************************************************************************)
C9_LastCauseReported ==
    \A p \in Procs :
        (Returned(p) /\ maxAttempts[p] >= 1 /\ AllFailed(hist[p])
            /\ ~err[p].isNil)
        => LET h == hist[p]
               n == Len(h)
               m == err[p].msg
               c == Cause(h[n])
           IN  /\ Contains(m, Itoa(maxAttempts[p]) \o <<" attempts">>)
               /\ Len(m) >= Len(c)
               /\ SubSeq(m, Len(m) - Len(c) + 1, Len(m)) = c
               /\ ~h[n].err.isNil => ~Contains(m, <<": HTTP status ">>)
               /\ h[n].err.isNil => Contains(m, <<": HTTP status ">> \o c)
               /\ \A i \in 1..(n - 1) :
                     Cause(h[i]) # c => ~Contains(m, Cause(h[i]))

C9_Witness ==
    /\ Returned(Watcher)
    /\ maxAttempts[Watcher] = 3
    /\ Len(hist[Watcher]) = 3
    /\ hist[Watcher][1].StatusCode = 500
    /\ hist[Watcher][2].err = Errorf(<<"connection refused">>)
    /\ hist[Watcher][3].StatusCode = 300
    /\ err[Watcher].msg = <<"failed after ", "3", " attempts",
                            ": HTTP status ", "3", "0", "0">>

(***************************************************************************)
(* C10  Failures are non-fatal and do not escalate: the step that ends a   *)
(* failed check puts the watcher back in Idle with the configuration and   *)
(* the cache unchanged, the watcher leaves Idle only to begin a check, and *)
(* every check begins with the configured endpoint, attempt 1 and the full *)
(* configured budget; so the first successful fetch after a run of failed  *)
(* checks is compared with the cache as it was before the failures and     *)
(* logged as a first observation or a change.                              *)
(***************************************************************************)
\* the address of the most recent successful fetch among results[1..n]
RECURSIVE LastSuccess(_)
LastSuccess(n) ==
    IF n = 0 THEN EmptyString
    ELSE IF results[n].err.isNil THEN results[n].ip
    ELSE LastSuccess(n - 1)

C10_Step ==
    /\ config'.IPEndpoint = config.IPEndpoint
    /\ config'.MaxRetries = config.MaxRetries
    /\ \A p \in Procs :
          /\ (pc[p] = "returned" /\ ~err[p].isNil)
                => /\ pc'[p] \in {"returned", "idle"}
                   /\ config' = config
          /\ pc[p] = "idle" => pc'[p] \in {"idle", "fetch"}
          /\ (pc[p] \in {"initial", "idle"} /\ pc'[p] = "fetch")
                => /\ attempt'[p] = 1
                   /\ maxAttempts'[p] = config.MaxRetries
                   /\ endpoint'[p] = config.IPEndpoint
                   /\ hist'[p] = <<>>

C10_Recovered ==
    LET n == Len(results)
    IN  (CheckDone(Watcher) /\ n >= 2 /\ ~results[n - 1].err.isNil
            /\ results[n].err.isNil)
        => LET old == LastSuccess(n - 1)
               new == results[n].ip
           IN  /\ cacheAtStart[Watcher] = old
               /\ config.LastKnownIP = new
               /\ new # old
                     => Last(log) =
                           IF old = <<>>
                           THEN <<"Current external IP: ">> \o new
                           ELSE <<"IP changed: ">> \o old \o <<" -> ">> \o new

C10_FailuresDoNotEscalate == [][C10_Step]_vars /\ []C10_Recovered

C10_Witness ==
    /\ CheckDone(Watcher)
    /\ Len(results) = 3
    /\ ~results[1].err.isNil
    /\ ~results[2].err.isNil
    /\ results[3] = [ip |-> <<"A">>, err |-> Nil]
    /\ config.MaxRetries = 3
    /\ Last(log) = <<"Current external IP: ", "A">>

(***************************************************************************)
(* C11  Immediate first check: startIPChecker begins one check at startup  *)
(* before it receives any tick, and enters the tick-driven loop only after *)
(* that check.  As claimed, for every configured interval:                 *)
(* C11_FirstCheckForEveryInterval.  As amended, for every configured       *)
(* interval greater than zero: C11_ImmediateFirstCheck.                    *)
(***************************************************************************)
PastStartup == pc[Watcher] \notin {"startIPChecker", "initial"}

C11_FirstCheckForEveryInterval == PastStartup => started >= 1

C11_Step ==
    /\ (started = 0 /\ started' = 1)
          => /\ pc[Watcher] = "initial"
             /\ ticker' = ticker
    /\ (ticker.pending = 1 /\ ticker'.pending = 0)
          => /\ Len(results) >= 1
             /\ pc[Watcher] = "idle"

C11_ImmediateFirstCheck ==
    /\ [](config.Interval > 0
            => /\ PastStartup => started >= 1
               /\ pc[Watcher] = "idle" => Len(results) >= 1)
    /\ [][C11_Step]_vars

C11_Witness ==
    /\ config.Interval = 60
    /\ pc[Watcher] = "get"
    /\ started = 1
    /\ ticker.running
    /\ ticker.pending = 0
    /\ ticks = 0

(***************************************************************************)
(* C12  One check per tick.  As claimed: once the loop has consumed every  *)
(* tick, n ticks have led to exactly n+1 checks begun, however long a      *)
(* check lasts: C12_OneCheckPerTick.  As amended: a tick that fires while  *)
(* the previous tick is still waiting in the channel is dropped; every     *)
(* other tick is delivered and each delivered tick begins exactly one      *)
(* check, so at most n+1 checks are begun after n ticks:                   *)
(* C12_OneCheckPerDeliveredTick.                                           *)
(***************************************************************************)
C12_OneCheckPerTick ==
    (pc[Watcher] = "idle" /\ ticker.pending = 0) => started = ticks + 1

\* ticks that fired and neither began a check nor wait in the channel
Owed == IF pc[Watcher] \in {"startIPChecker", "initial"} THEN 1 ELSE 0
DroppedTicks == ticks + 1 - started - ticker.pending - Owed

C12_Step ==
    ticker.running
        => IF ticks' = ticks + 1 /\ ticker.pending = 1
           THEN DroppedTicks' = DroppedTicks + 1
           ELSE DroppedTicks' = DroppedTicks

C12_OneCheckPerDeliveredTick ==
    /\ [](ticker.running
            => /\ DroppedTicks >= 0
               /\ ticker.pending \in {0, 1}
               /\ started <= ticks + 1)
    /\ [][C12_Step]_vars

C12_Witness ==
    /\ pc[Watcher] = "idle"
    /\ ticker.pending = 0
    /\ ticks = 3
    /\ started = 3
    /\ DroppedTicks = 1

(***************************************************************************)
(* One check against an endpoint answering 200 with any of a wider range   *)
(* of bodies: objects of one or two members, scalars, text, broken JSON    *)
(***************************************************************************)
ParseKeys == {"\"ip\"", "\"IP\"", "\"k\""}
ParseVals == {"\"A\"", "\"B\"", "\"\"", "1", "null"}

ParseBodies ==
    {<<"{", k, ":", v, "}">> : k \in ParseKeys, v \in ParseVals}
    \cup {<<"{", k[1], ":", v[1], ",", k[2], ":", v[2], "}">> :
             k \in ParseKeys \X ParseKeys, v \in ParseVals \X ParseVals}
    \cup { EmptyString,
           <<"{", "}">>,
           <<"A">>,
           <<"A", "\n">>,
           <<"null">>,
           <<"1">>,
           <<"\"A\"">>,
           <<"{", "\"ip\"", ":", "\"A\"">>,
           <<"{", "\"ip\"", "\"A\"", "}">>,
           <<"{", "\"ip\"", ":", "\"A\"", "}", "\n">>,
           <<" ", "{", "\"ip\"", ":", " ", "\"B\"", "}">> }

ParseOutcomes == {Outcome(Nil, 200, b, Nil) : b \in ParseBodies}

GetParse(p) == request(p, ParseOutcomes)
ReadAllParse(p) == readBody(p, ParseOutcomes)

ParseInit ==
    /\ Init
    /\ config.Interval = 60
    /\ config.MaxRetries = 1

NextParse ==
    \/ NewTicker(Watcher)
    \/ InitialCheck(Watcher)
    \/ FetchEntry(Watcher)
    \/ GetParse(Watcher)
    \/ ReadAllParse(Watcher)
    \/ FetchReturned(Watcher)
    \/ Lock(Watcher)
    \/ Compare(Watcher)
    \/ Assign(Watcher)
    \/ Unlock(Watcher)

SpecParse == ParseInit /\ [][NextParse]_vars

(***************************************************************************)
(* C13  Response parsing priority: for every 2xx body the address is the   *)
(* value of the string member `ip` when the body decodes as a JSON object  *)
(* and that value is non-empty, and otherwise the whole body verbatim;     *)
(* parsing never yields an error.  As claimed, `ip` is the member of       *)
(* exactly that name: C13_ParsingPriorityExactName.  As amended, the       *)
(* member name is matched ignoring letter case: C13_ParsingPriority.       *)
(***************************************************************************)
\* the members of an object text s: member i has name s[4i-2], value s[4i]
MemberCount(s) == (Len(s) - 1) \div 4

\* what the claim expects for body b when the members named by one of
\* names are taken as the field: the last string value among them, when the
\* body is a JSON object, none of them has a value of another type than
\* string or null, and that string is not empty
ExpectedAddress(b, names) ==
    LET s == Significant(b)
        K == {i \in 1..MemberCount(s) : s[4 * i - 2] \in names}
        strs == {i \in K : s[4 * i] \in StrLits}
    IN  IF /\ ValidObject(s)
           /\ \A i \in K : s[4 * i] \in StrLits \cup {"null"}
           /\ strs # {}
        THEN LET last == CHOOSE i \in strs : \A j \in strs : j <= i
             IN  IF Unquote(s[4 * last]) # <<>>
                 THEN Unquote(s[4 * last])
                 ELSE b
        ELSE b

C13_ParsingPriorityExactName ==
    \A p \in Procs :
        (Returned(p) /\ Len(hist[p]) >= 1 /\ Answered(Last(hist[p])))
            => /\ err[p].isNil
               /\ ip[p] = ExpectedAddress(Last(hist[p]).Body, {"\"ip\""})

C13_ParsingPriority ==
    \A p \in Procs :
        (Returned(p) /\ Len(hist[p]) >= 1 /\ Answered(Last(hist[p])))
            => /\ err[p].isNil
               /\ ip[p] = ExpectedAddress(Last(hist[p]).Body,
                                          {"\"ip\"", "\"IP\""})

C13_Witness ==
    /\ Returned(Watcher)
    /\ hist[Watcher] = <<Outcome(Nil, 200, <<"{", "\"IP\"", ":", "\"A\"", "}">>,
                                 Nil)>>
    /\ ip[Watcher] = <<"A">>
    /\ err[Watcher].isNil

(***************************************************************************)
(* C14  Log before update, at most one line per check: a check whose       *)
(* successful fetch differs from the cache writes exactly one line, and    *)
(* writes it while the cache still holds the old value; the cache is set   *)
(* afterwards, in a later step; no check writes more than one line.        *)
(***************************************************************************)
C14_Step ==
    /\ log' # log => config' = config
    /\ config' # config
          => /\ log' = log
             /\ Len(log) = Len(logAtStart[Watcher]) + 1

C14_State ==
    /\ Len(log) <= Len(logAtStart[Watcher]) + 1
    /\ pc[Watcher] = "assign"
          => /\ config.LastKnownIP = cacheAtStart[Watcher]
             /\ ip[Watcher] # config.LastKnownIP
             /\ Len(log) = Len(logAtStart[Watcher]) + 1
             /\ Last(log) =
                   IF config.LastKnownIP = <<>>
                   THEN <<"Current external IP: ">> \o ip[Watcher]
                   ELSE <<"IP changed: ">> \o config.LastKnownIP
                            \o <<" -> ">> \o ip[Watcher]
    /\ (CheckDone(Watcher) /\ err[Watcher].isNil
          /\ ip[Watcher] # cacheAtStart[Watcher])
          => /\ Len(log) = Len(logAtStart[Watcher]) + 1
             /\ config.LastKnownIP = ip[Watcher]

C14_LogBeforeUpdate == []C14_State /\ [][C14_Step]_vars

C14_Witness ==
    /\ pc[Watcher] = "assign"
    /\ config.LastKnownIP = <<"A">>
    /\ ip[Watcher] = <<"B">>
    /\ Last(log) = <<"IP changed: ", "A", " -> ", "B">>
    /\ Len(log) = Len(logAtStart[Watcher]) + 1

(***************************************************************************)
(* C15  Strictly sequential checks: a check begins only when no check is   *)
(* under way, the previous one having finished its retries and its         *)
(* compare-and-log step and released the lock; at most one check is in     *)
(* the Checking state and at most one network call is in flight.           *)
(***************************************************************************)
InCheck(p) ==
    pc[p] \in {"fetch", "get", "read", "returned", "lock", "compare", "assign",
               "unlock"}

C15_Step ==
    started' # started
        => /\ started' = started + 1
           /\ \A p \in Procs : ~InCheck(p)
           /\ Len(results) = started
           /\ lockHolder = NoOne

C15_State ==
    /\ Cardinality({p \in Procs : InCheck(p)}) <= 1
    /\ Cardinality({p \in Procs : pc[p] \in {"get", "read"}}) <= 1
    /\ started - Len(results)
          = IF pc[Watcher] \in {"fetch", "get", "read", "returned"}
            THEN 1 ELSE 0

C15_SequentialChecks == []C15_State /\ [][C15_Step]_vars

C15_Witness ==
    /\ pc[Watcher] = "get"
    /\ attempt[Watcher] = 2
    /\ started = 2
    /\ Len(results) = 1
    /\ ticker.pending = 1
    /\ ticks = 2

(***************************************************************************)
(* C17  Uniform retry eligibility: when a fetch returns, the number of     *)
(* network calls it made and whether it succeeded are determined by the    *)
(* position of the first 2xx response alone: with a first 2xx response at  *)
(* position f the fetch made f calls and succeeded, with none it made      *)
(* maxAttempts calls (none for an empty budget) and failed, whatever the   *)
(* kinds of failure and the status codes were.                             *)
(***************************************************************************)
First2xx(h) ==
    IF \E i \in 1..Len(h) : Is2xxResponse(h[i])
    THEN CHOOSE i \in 1..Len(h) :
            /\ Is2xxResponse(h[i])
            /\ \A j \in 1..(i - 1) : ~Is2xxResponse(h[j])
    ELSE 0

C17_UniformRetryEligibility ==
    \A p \in Procs :
        Returned(p)
            => LET f == First2xx(hist[p])
               IN  IF f > 0
                   THEN Len(hist[p]) = f /\ err[p].isNil
                   ELSE /\ Len(hist[p])
                             = IF maxAttempts[p] < 1 THEN 0 ELSE maxAttempts[p]
                        /\ ~err[p].isNil

(***************************************************************************)
(* C18  Cache tracks the last success: whenever no compare step is under   *)
(* way, and so after every completed check, LastKnownIP is the address     *)
(* returned by the most recent successful fetch, or empty if no fetch has  *)
(* succeeded yet.                                                          *)
(***************************************************************************)
C18_CacheTracksLastSuccess ==
    pc[Watcher] \notin {"lock", "compare", "assign"}
        => config.LastKnownIP = LastSuccess(Len(results))

C18_Witness ==
    /\ CheckDone(Watcher)
    /\ Len(results) = 3
    /\ results[1] = [ip |-> <<"A">>, err |-> Nil]
    /\ results[2] = [ip |-> <<"B">>, err |-> Nil]
    /\ ~results[3].err.isNil
    /\ config.LastKnownIP = <<"B">>

(***************************************************************************)
(* C20  Fetch terminates within its budget: provided each network call     *)
(* returns, every fetchExternalIP(endpoint, 1, maxAttempts) returns to     *)
(* checkIP; the attempt counter grows by exactly 1 per retry and lies in   *)
(* 1..maxAttempts whenever a network call is made; the depth of            *)
(* invocations equals the attempt counter and never exceeds maxAttempts    *)
(* for a budget of at least 1 (for a budget below 1 the first invocation   *)
(* is the only one).                                                       *)
(***************************************************************************)
\* the fetch of the startup check, for every budget; each network call
\* returns (main.go:145) and the goroutine inside fetchExternalIP keeps
\* running, hence the weak fairness of the two steps of a frame
FetchInit ==
    /\ Init
    /\ config.Interval = 60

NextFetch ==
    \/ NewTicker(Watcher)
    \/ InitialCheck(Watcher)
    \/ FetchEntry(Watcher)
    \/ Get(Watcher)
    \/ ReadAll(Watcher)
    \/ FetchReturned(Watcher)
    \/ Lock(Watcher)
    \/ Compare(Watcher)
    \/ Assign(Watcher)
    \/ Unlock(Watcher)

SpecFetch ==
    /\ FetchInit
    /\ [][NextFetch]_vars
    /\ WF_vars(FetchEntry(Watcher))
    /\ WF_vars(Get(Watcher))
    /\ WF_vars(ReadAll(Watcher))

InFetch(p) == pc[p] \in {"fetch", "get", "read"}

\* the claim as stated: the depth never exceeds maxAttempts
C20_DepthWithinBudget ==
    \A p \in Procs : InFetch(p) => depth[p] <= maxAttempts[p]

C20_State ==
    \A p \in Procs :
        /\ depth[p] = attempt[p]
        /\ InFetch(p)
              => /\ attempt[p] >= 1
                 /\ Len(hist[p]) = attempt[p] - 1
                 /\ depth[p] <= IF maxAttempts[p] < 1 THEN 1
                                ELSE maxAttempts[p]
        /\ pc[p] \in {"get", "read"} => attempt[p] <= maxAttempts[p]

C20_Step ==
    \A p \in Procs :
        /\ (pc[p] = "get" /\ pc'[p] = "fetch")
              => /\ attempt'[p] = attempt[p] + 1
                 /\ attempt[p] < maxAttempts[p]
        /\ attempt'[p] # attempt[p]
              => \/ pc[p] = "get" /\ pc'[p] = "fetch"
                 \/ ~InFetch(p) /\ pc'[p] = "fetch" /\ attempt'[p] = 1
                 \/ pc[p] = "returned" /\ attempt'[p] = 0

C20_FetchTerminates ==
    /\ []C20_State
    /\ [][C20_Step]_vars
    /\ \A p \in Procs : InFetch(p) ~> Returned(p)

C20_Witness ==
    /\ Returned(Watcher)
    /\ maxAttempts[Watcher] = 3
    /\ attempt[Watcher] = 3
    /\ depth[Watcher] = 3
    /\ Len(hist[Watcher]) = 3
    /\ ~err[Watcher].isNil

(***************************************************************************)
(* Concurrent use of one Config: next to the watcher loop, a second        *)
(* goroutine calls checkIP on the same Config and a third reads            *)
(* LastKnownIP under LastKnownIPLock.                                      *)
(***************************************************************************)
ConcOutcomes ==
    { Outcome(Errorf(<<"connection refused">>), 0, EmptyString, Nil),
      Outcome(Nil, 200, <<"{", "\"ip\"", ":", "\"A\"", "}">>, Nil),
      Outcome(Nil, 200, <<"B">>, Nil),
      Outcome(Nil, 200, EmptyString, Nil) }

GetConc(p) == request(p, ConcOutcomes)
ReadAllConc(p) == readBody(p, ConcOutcomes)

\* main_test.go:374-387: a goroutine that calls checkIP(config)
CallerCheck(p) ==
    /\ pc[p] = "ready"
    /\ callFetch(p)
    /\ UNCHANGED <<config, lockHolder, log, ticker, results, ticks, resp>>

\* config.LastKnownIPLock.Lock() in the reading goroutine
ReaderLock(p) ==
    /\ pc[p] = "r_idle"
    /\ lockHolder = NoOne
    /\ lockHolder' = p
    /\ pc' = [pc EXCEPT ![p] = "r_read"]
    /\ UNCHANGED <<config, log, ticker, endpoint, attempt, maxAttempts, depth,
                   ip, err, hist, logAtStart, cacheAtStart, results, started,
                   ticks, resp>>

\* the reader's copy of config.LastKnownIP
ReaderRead(p) ==
    /\ pc[p] = "r_read"
    /\ ip' = [ip EXCEPT ![p] = config.LastKnownIP]
    /\ pc' = [pc EXCEPT ![p] = "r_unlock"]
    /\ UNCHANGED <<config, lockHolder, log, ticker, endpoint, attempt,
                   maxAttempts, depth, err, hist, logAtStart, cacheAtStart,
                   results, started, ticks, resp>>

\* config.LastKnownIPLock.Unlock() in the reading goroutine
ReaderUnlock(p) ==
    /\ pc[p] = "r_unlock"
    /\ lockHolder' = NoOne
    /\ ip' = [ip EXCEPT ![p] = EmptyString]
    /\ pc' = [pc EXCEPT ![p] = "r_idle"]
    /\ UNCHANGED <<config, log, ticker, endpoint, attempt, maxAttempts, depth,
                   err, hist, logAtStart, cacheAtStart, results, started,
                   ticks, resp>>

ConcInit ==
    /\ config \in Configs
    /\ config.Interval = 60
    /\ config.MaxRetries = 1
    /\ lockHolder = NoOne
    /\ log = <<StartLine(config.Interval)>>
    /\ ticker = [running |-> FALSE, pending |-> 0]
    /\ pc = [p \in Procs |-> IF p = Watcher THEN "startIPChecker"
                             ELSE IF p = Caller THEN "ready"
                             ELSE "r_idle"]
    /\ endpoint = [p \in Procs |-> EmptyString]
    /\ attempt = [p \in Procs |-> 0]
    /\ maxAttempts = [p \in Procs |-> 0]
    /\ depth = [p \in Procs |-> 0]
    /\ ip = [p \in Procs |-> EmptyString]
    /\ err = [p \in Procs |-> Nil]
    /\ resp = [p \in Procs |-> NoResponse]
    /\ hist = [p \in Procs |-> <<>>]
    /\ logAtStart = [p \in Procs |-> log]
    /\ cacheAtStart = [p \in Procs |-> EmptyString]
    /\ results = <<>>
    /\ started = 0
    /\ ticks = 0

NextConc ==
    \/ NewTicker(Watcher)
    \/ Tick
    \/ InitialCheck(Watcher)
    \/ TickerRecv(Watcher)
    \/ CallerCheck(Caller)
    \/ \E p \in {Watcher, Caller} :
          \/ FetchEntry(p)
          \/ GetConc(p)
          \/ ReadAllConc(p)
          \/ FetchReturned(p)
          \/ Lock(p)
          \/ Compare(p)
          \/ Assign(p)
          \/ Unlock(p)
    \/ ReaderLock(Reader)
    \/ ReaderRead(Reader)
    \/ ReaderUnlock(Reader)

SpecConc == ConcInit /\ [][NextConc]_vars

(***************************************************************************)
(* C16  Lock discipline: a goroutine is inside its critical section (the   *)
(* compare-log-update step of a check, or the read of a reader) exactly    *)
(* while it holds LastKnownIPLock, so no two of them are inside at the     *)
(* same time; LastKnownIP is written only by the holder of the lock and    *)
(* read only by it; a check that has returned does not hold the lock.      *)
(***************************************************************************)
Checkers == {Watcher, Caller}

InCriticalSection(p) ==
    pc[p] \in {"compare", "assign", "unlock", "r_read", "r_unlock"}

C16_State ==
    /\ \A p \in Procs : InCriticalSection(p) <=> lockHolder = p
    /\ Cardinality({p \in Procs : InCriticalSection(p)}) <= 1
    /\ \A p \in Checkers : pc[p] = afterCheck(p) => lockHolder # p

C16_Step ==
    /\ config'.LastKnownIP # config.LastKnownIP
          => /\ lockHolder \in Checkers
             /\ lockHolder' = lockHolder
             /\ pc[lockHolder] = "assign"
    /\ \A p \in Checkers :
          (pc[p] = "compare" /\ pc'[p] # "compare") => lockHolder = p
    /\ ip'[Reader] # ip[Reader] => lockHolder = Reader

C16_LockDiscipline == []C16_State /\ [][C16_Step]_vars

C16_Witness ==
    /\ pc[Watcher] = "assign"
    /\ lockHolder = Watcher
    /\ pc[Caller] = "lock"
    /\ pc[Reader] = "r_idle"
    /\ config.LastKnownIP = <<"A">>
    /\ ip[Watcher] = <<"B">>

(***************************************************************************)
(* C19  Consistent change chain: every logged line "IP changed: old ->     *)
(* new" has old non-empty and different from new, and old is the address   *)
(* announced by the address line logged just before it ("Current external  *)
(* IP" or "IP changed"), also when checkIP calls on the same Config run     *)
(* concurrently.                                                           *)
(***************************************************************************)
IsChangedLine(l) == Len(l) >= 1 /\ l[1] = "IP changed: "
IsCurrentLine(l) == Len(l) >= 1 /\ l[1] = "Current external IP: "
IsAddressLine(l) == IsChangedLine(l) \/ IsCurrentLine(l)

Arrow(l) == CHOOSE k \in 2..Len(l) : l[k] = " -> "
OldOf(l) == SubSeq(l, 2, Arrow(l) - 1)
NewOf(l) == SubSeq(l, Arrow(l) + 1, Len(l))
AnnouncedBy(l) == IF IsCurrentLine(l) THEN Tail(l) ELSE NewOf(l)

C19_ConsistentChangeChain ==
    \A i \in 1..Len(log) :
        IsChangedLine(log[i])
            => /\ OldOf(log[i]) # <<>>
               /\ OldOf(log[i]) # NewOf(log[i])
               /\ \E j \in 1..(i - 1) :
                     /\ IsAddressLine(log[j])
                     /\ \A k \in (j + 1)..(i - 1) : ~IsAddressLine(log[k])
                     /\ AnnouncedBy(log[j]) = OldOf(log[i])

C19_Witness ==
    /\ Len(log) >= 3
    /\ log[Len(log) - 1] = <<"Current external IP: ", "A">>
    /\ Last(log) = <<"IP changed: ", "A", " -> ", "B">>
    /\ pc[Watcher] = "assign"
    /\ pc[Caller] = "lock"
    /\ ip[Caller] = <<"B">>

(***************************************************************************)
(* C21  Empty budget: with a configured MaxRetries below 1 no network call *)
(* is ever made, every fetch returns the error "failed to make request     *)
(* after <MaxRetries> attempts", every check logs exactly one "Error       *)
(* checking IP" line with it, the lock is never taken and the cache stays  *)
(* empty.                                                                  *)
(***************************************************************************)
EmptyBudgetMsg ==
    <<"failed to make request after ">> \o Itoa(config.MaxRetries)
        \o <<" attempts">>

C21_State ==
    config.MaxRetries < 1
        => /\ \A p \in Procs :
                 /\ pc[p] \notin {"get", "read", "lock", "compare", "assign",
                              "unlock"}
                 /\ hist[p] = <<>>
                 /\ Returned(p)
                       => ip[p] = EmptyString /\ err[p] = Errorf(EmptyBudgetMsg)
           /\ lockHolder = NoOne
           /\ config.LastKnownIP = EmptyString
           /\ \A i \in 1..Len(results) :
                 results[i] = [ip |-> EmptyString, err |-> Errorf(EmptyBudgetMsg)]
           /\ Len(log) = 1 + Len(results)
           /\ \A i \in 2..Len(log) :
                 log[i] = <<"Error checking IP: ">> \o EmptyBudgetMsg
           /\ CheckDone(Watcher) => Len(log) = 1 + started

C21_Step ==
    config.MaxRetries < 1
        => /\ config' = config
           /\ hist' = hist
           /\ \A p \in Procs :
                 (pc[p] = "fetch" /\ pc'[p] # "fetch") => pc'[p] = "returned"

C21_EmptyBudget == []C21_State /\ [][C21_Step]_vars

C21_Witness ==
    /\ config.MaxRetries = 0
    /\ CheckDone(Watcher)
    /\ started = 2
    /\ Len(results) = 2
    /\ Len(log) = 3
    /\ Last(log) = <<"Error checking IP: ", "failed to make request after ",
                     "0", " attempts">>
    /\ config.LastKnownIP = EmptyString

(***************************************************************************)
(* The watcher loop with retries, next to a goroutine that reads           *)
(* LastKnownIP under LastKnownIPLock.                                      *)
(***************************************************************************)
LockInit ==
    /\ config \in Configs
    /\ config.Interval = 60
    /\ config.MaxRetries = 2
    /\ lockHolder = NoOne
    /\ log = <<StartLine(config.Interval)>>
    /\ ticker = [running |-> FALSE, pending |-> 0]
    /\ pc = [p \in Procs |-> IF p = Watcher THEN "startIPChecker"
                             ELSE IF p = Reader THEN "r_idle"
                             ELSE "off"]
    /\ endpoint = [p \in Procs |-> EmptyString]
    /\ attempt = [p \in Procs |-> 0]
    /\ maxAttempts = [p \in Procs |-> 0]
    /\ depth = [p \in Procs |-> 0]
    /\ ip = [p \in Procs |-> EmptyString]
    /\ err = [p \in Procs |-> Nil]
    /\ resp = [p \in Procs |-> NoResponse]
    /\ hist = [p \in Procs |-> <<>>]
    /\ logAtStart = [p \in Procs |-> log]
    /\ cacheAtStart = [p \in Procs |-> EmptyString]
    /\ results = <<>>
    /\ started = 0
    /\ ticks = 0

NextLock ==
    \/ NewTicker(Watcher)
    \/ Tick
    \/ InitialCheck(Watcher)
    \/ TickerRecv(Watcher)
    \/ FetchEntry(Watcher)
    \/ GetConc(Watcher)
    \/ ReadAllConc(Watcher)
    \/ FetchReturned(Watcher)
    \/ Lock(Watcher)
    \/ Compare(Watcher)
    \/ Assign(Watcher)
    \/ Unlock(Watcher)
    \/ ReaderLock(Reader)
    \/ ReaderRead(Reader)
    \/ ReaderUnlock(Reader)

SpecLock == LockInit /\ [][NextLock]_vars

(***************************************************************************)
(* C22  No lock across the network: a check does not hold LastKnownIPLock  *)
(* while its fetch (first attempt or retry) is in progress; a check whose  *)
(* fetch failed returns without taking the lock; a check holds the lock    *)
(* only in its compare-log-update step; so while checks are fetching and   *)
(* no goroutine is in its critical section the lock is free for a reader.  *)
(***************************************************************************)
Fetching(p) == pc[p] \in {"fetch", "get", "read", "returned"}

C22_State ==
    /\ \A p \in Checkers :
          /\ Fetching(p) => lockHolder # p
          /\ lockHolder = p => pc[p] \in {"compare", "assign", "unlock"}
    /\ (\A p \in Procs : ~InCriticalSection(p)) => lockHolder = NoOne
    /\ (pc[Reader] = "r_idle" /\ \A p \in Checkers : ~InCriticalSection(p))
          => ENABLED ReaderLock(Reader)

C22_Step ==
    \A p \in Checkers :
        /\ (lockHolder # p /\ lockHolder' = p)
              => /\ pc[p] = "lock"
                 /\ err[p].isNil
        /\ (Returned(p) /\ ~err[p].isNil)
              => /\ lockHolder' # p
                 /\ pc'[p] \in {"returned", afterCheck(p)}

C22_NoLockAcrossNetwork == []C22_State /\ [][C22_Step]_vars

C22_Witness ==
    /\ pc[Watcher] = "get"
    /\ attempt[Watcher] = 2
    /\ pc[Reader] = "r_read"
    /\ lockHolder = Reader
    /\ config.LastKnownIP = <<"A">>

====
